---- MODULE Spec2Model ----
(***************************************************************************)
(* Model of skills/debug/repackage.py: a script that packages the          *)
(* directory it lives in into <parent>/<dirname>.zip, leaving out every    *)
(* file named repackage.py.                                                *)
(*                                                                         *)
(* A path is a sequence of components from the filesystem root, the        *)
(* filesystem is a function from the existing paths to file objects, and   *)
(* one run of the script is the sequence of steps                          *)
(*   resolve -> remove -> open -> walk ... -> (close) -> print -> done     *)
(* with "unwind"/"failed" for an exception leaving the module body.        *)
(* The user may run the script again on the unchanged tree (Rerun).        *)
(*                                                                         *)
(* __file__ is the absolute path of the script (Python 3.9 and later), in  *)
(* a directory that has a name; the tree holds directories and regular     *)
(* files only.  The environment may make one source file unreadable and    *)
(* one kind of operation on the destination fail; when the device is full  *)
(* the end record written by close() may or may not still fit.             *)
(***************************************************************************)
EXTENDS Integers, Sequences, FiniteSets, TLC

VARIABLES
    script_file,  \* __file__ of the running script
    fs,           \* filesystem: path -> file object
    unreadable,   \* environment: source file whose open() raises EACCES (Root: none)
    destFault,    \* environment: "none", or which destination operation raises
    script_dir, skill_name, zip_path,   \* lines 15-17
    zf,           \* the ZipFile handle of the with statement
    pending,      \* entries the rglob walk has still to yield
    pc,           \* position in the module body
    stdout,       \* what the run printed
    exc,          \* exceptions raised in this run
    reads,        \* source files opened for reading in this run
    closed,       \* how often the with statement released the handle in this run
    run           \* number of the current invocation

vars == <<script_file, fs, unreadable, destFault, script_dir, skill_name, zip_path,
          zf, pending, pc, stdout, exc, reads, closed, run>>

\* number of invocations of the script in one behaviour
MaxRuns == 2

\* zipfile.ZIP_DEFLATED
ZIP_DEFLATED == 8

Root == <<>>

\* The name the walk leaves out (line 28)
SelfName == "repackage.py"

-----------------------------------------------------------------------------
(* pathlib *)

\* Path.parent: the root is its own parent
Parent(p) == IF Len(p) = 0 THEN p ELSE SubSeq(p, 1, Len(p) - 1)

\* Path.name: the last component, empty for the root
Name(p) == IF Len(p) = 0 THEN "" ELSE p[Len(p)]

\* the / operator with one component
Join(p, n) == Append(p, n)

IsPrefix(a, p) == Len(a) <= Len(p) /\ SubSeq(p, 1, Len(a)) = a

\* Path.relative_to(base): defined when base is a prefix of p (ValueError otherwise)
RelativeTo(p, base) == SubSeq(p, Len(base) + 1, Len(p))

Exists(f, p) == p \in DOMAIN f

IsFile(f, p) == Exists(f, p) /\ f[p].kind # "dir"

\* Path.rglob('*'): everything strictly below d, directories included
RGlob(f, d) == {p \in DOMAIN f : IsPrefix(d, p) /\ p # d}

\* an unlink that removes nothing
UnlinkNothing(f, p) == f

\* Path.unlink
Unlink(f, p) == [q \in (DOMAIN f) \ {p} |-> f[q]]

-----------------------------------------------------------------------------
(* file objects *)

Dir == [kind |-> "dir", data |-> <<>>, entries |-> <<>>, final |-> FALSE, gen |-> 0]

RegularFile(bytes) ==
    [kind |-> "file", data |-> bytes, entries |-> <<>>, final |-> FALSE, gen |-> 0]

\* a zip file on disk: the entries written so far, whether the end record
\* (central directory) was written, and the run that created the file
ZipFileOnDisk(entries, final, gen) ==
    [kind |-> "zip", data |-> <<>>, entries |-> entries, final |-> final, gen |-> gen]

-----------------------------------------------------------------------------
(* deflate, as run-length coding of a byte string *)

RECURSIVE RunLen(_)
RunLen(b) ==
    IF Len(b) <= 1 THEN Len(b)
    ELSE IF b[2] = b[1] THEN 1 + RunLen(Tail(b)) ELSE 1

RECURSIVE Deflate(_)
Deflate(b) ==
    IF b = <<>> THEN <<>>
    ELSE LET r == RunLen(b)
         IN  <<[byte |-> b[1], count |-> r]>> \o Deflate(SubSeq(b, r + 1, Len(b)))

RECURSIVE Inflate(_)
Inflate(c) ==
    IF c = <<>> THEN <<>>
    ELSE [i \in 1..c[1].count |-> c[1].byte] \o Inflate(Tail(c))

\* the entry zf.write(file_path, arcname) stores
ZipEntry(arcname, bytes) ==
    [filename |-> arcname, compress_type |-> ZIP_DEFLATED,
     data |-> Deflate(bytes), file_size |-> Len(bytes)]

-----------------------------------------------------------------------------
(* zipfile *)

\* the handle before the with statement is entered and after it is left
NoHandle == [open |-> FALSE, filelist |-> <<>>]

\* open(file, 'w+b') of ZipFile(file, 'w'): creates the file, or truncates
\* the one that is there; born is the run that does it
ZipOpen(f, p, born) ==
    [q \in (DOMAIN f) \cup {p} |->
        IF q = p THEN ZipFileOnDisk(<<>>, FALSE, born) ELSE f[q]]

\* the bytes zf.write adds to the file behind the handle
ZipAppend(f, p, e) ==
    [f EXCEPT ![p] = ZipFileOnDisk(Append(f[p].entries, e), FALSE, f[p].gen)]

\* a close that releases the file without writing the end record
ZipFinishNoEndRecord(f, p, ok) ==
    [f EXCEPT ![p] = ZipFileOnDisk(f[p].entries, FALSE, f[p].gen)]

\* ZipFile.close(): the end record (central directory) is written unless
\* that write fails, and the file object is released either way
ZipFinish(f, p, ok) ==
    [f EXCEPT ![p] = ZipFileOnDisk(f[p].entries, ok, f[p].gen)]

\* the test of line 28 without the comparison of the name
EligibleAnyFile(f, file_path) == IsFile(f, file_path)

\* line 28: what the walk packages
Eligible(f, file_path) == IsFile(f, file_path) /\ Name(file_path) # SelfName

\* a name relative to the packaged directory itself
ArcNameInside(file_path, sdir) == RelativeTo(file_path, sdir)

\* line 29
ArcName(file_path, sdir) == RelativeTo(file_path, Parent(sdir))

-----------------------------------------------------------------------------
(* the trees the script is run in *)

\* where the script may be installed
ScriptFiles == {<<"skills", "debug", "repackage.py">>, <<"w", "repackage.py">>}

\* "Output: ../debug.zip" of the usage text
DestOf(sf) ==
    IF sf = <<"skills", "debug", "repackage.py">> THEN <<"skills", "debug.zip">>
    ELSE <<"w.zip">>

SourceOf(sf) ==
    IF sf = <<"skills", "debug", "repackage.py">> THEN <<"skills", "debug">>
    ELSE <<"w">>

\* files that may lie beside the script, relative to its directory
OptionalFiles ==
    {<<"a.txt">>, <<"b", "c.txt">>, <<"b", "repackage.py">>, <<"b", "d", "e.txt">>}

Content(rel) ==
    CASE rel = <<"a.txt">> -> <<1, 1, 0>>
      [] rel = <<"b", "c.txt">> -> <<>>
      [] rel = <<"b", "repackage.py">> -> <<0, 1>>
      [] rel = <<"b", "d", "e.txt">> -> <<2, 2>>
      [] OTHER -> <<1, 0, 0, 1>>

Prefixes(p) == {SubSeq(p, 1, n) : n \in 0..Len(p)}

\* the filesystem with the script in sd, the chosen files below it, the
\* directories above them, the directory b also when it is empty and withB,
\* and a file beside sd
Tree(sd, files, withB) ==
    LET rels  == files \cup {<<SelfName>>}
        dirs  == Prefixes(sd)
                   \cup {sd \o q : q \in UNION {Prefixes(r) \ {r} : r \in rels}}
                   \cup (IF withB THEN {sd \o <<"b">>} ELSE {})
        other == Join(Parent(sd), "README.md")
    IN  [p \in dirs \cup {sd \o r : r \in rels} \cup {other} |->
            IF p \in dirs THEN Dir
            ELSE IF p = other THEN RegularFile(<<0>>)
            ELSE RegularFile(Content(RelativeTo(p, sd)))]

\* an archive left at the destination by an earlier version of the tree
StaleArchive(sd) ==
    ZipFileOnDisk(<<ZipEntry(<<Name(sd), "old.txt">>, <<0, 0>>)>>, TRUE, 0)

WithStale(f, sf) ==
    [q \in (DOMAIN f) \cup {DestOf(sf)} |->
        IF q = DestOf(sf) THEN StaleArchive(SourceOf(sf)) ELSE f[q]]

Init ==
    /\ script_file \in ScriptFiles
    /\ \E files \in SUBSET OptionalFiles, withB \in BOOLEAN, stale \in BOOLEAN :
          LET t == Tree(SourceOf(script_file), files, withB)
          IN  fs = IF stale THEN WithStale(t, script_file) ELSE t
    /\ unreadable \in {Root} \cup
          {p \in RGlob(fs, SourceOf(script_file)) : IsFile(fs, p)}
    /\ destFault \in {"none", "unlink", "open", "nospace"}
    /\ script_dir = Root /\ skill_name = "" /\ zip_path = Root
    /\ zf = NoHandle
    /\ pending = {}
    /\ pc = "resolve"
    /\ stdout = <<>>
    /\ exc = <<>>
    /\ reads = {}
    /\ closed = 0
    /\ run = 1

-----------------------------------------------------------------------------
(* the module body *)

\* lines 15-17
Resolve ==
    /\ pc = "resolve"
    /\ script_dir' = Parent(script_file)
    /\ skill_name' = Name(script_dir')
    /\ zip_path' = Join(Parent(script_dir'), skill_name' \o ".zip")
    /\ pc' = "remove"
    /\ UNCHANGED <<script_file, fs, unreadable, destFault, zf, pending, stdout,
                   exc, reads, closed, run>>

\* lines 19-24: remove the old zip if it exists
RemoveOld ==
    /\ pc = "remove"
    /\ ~(Exists(fs, zip_path) /\ destFault = "unlink")
    /\ IF Exists(fs, zip_path)
       THEN /\ fs' = Unlink(fs, zip_path)
            /\ stdout' = stdout \o <<<<"Removed old", Name(zip_path)>>,
                                     <<"Packaging skill", skill_name>>>>
       ELSE /\ fs' = fs
            /\ stdout' = Append(stdout, <<"Packaging skill", skill_name>>)
    /\ pc' = "open"
    /\ UNCHANGED <<script_file, unreadable, destFault, script_dir, skill_name,
                   zip_path, zf, pending, exc, reads, closed, run>>

\* line 21 raises: the exception leaves the module body
RemoveOldFails ==
    /\ pc = "remove"
    /\ Exists(fs, zip_path) /\ destFault = "unlink"
    /\ exc' = Append(exc, "unlink")
    /\ pc' = "failed"
    /\ UNCHANGED <<script_file, fs, unreadable, destFault, script_dir, skill_name,
                   zip_path, zf, pending, stdout, reads, closed, run>>

\* line 26, and the start of the walk of line 27
OpenZip ==
    /\ pc = "open"
    /\ destFault # "open"
    /\ fs' = ZipOpen(fs, zip_path, run)
    /\ zf' = [open |-> TRUE, filelist |-> <<>>]
    /\ pending' = RGlob(fs', script_dir)
    /\ pc' = "walk"
    /\ UNCHANGED <<script_file, unreadable, destFault, script_dir, skill_name,
                   zip_path, stdout, exc, reads, closed, run>>

\* line 26 raises: no handle was acquired
OpenZipFails ==
    /\ pc = "open"
    /\ destFault = "open"
    /\ exc' = Append(exc, "open")
    /\ pc' = "failed"
    /\ UNCHANGED <<script_file, fs, unreadable, destFault, script_dir, skill_name,
                   zip_path, zf, pending, stdout, reads, closed, run>>

\* lines 27-31 for an entry that passes the test of line 28
AddFile ==
    /\ pc = "walk"
    /\ \E file_path \in pending :
          /\ Eligible(fs, file_path)
          /\ file_path # unreadable /\ destFault # "nospace"
          /\ LET arcname == ArcName(file_path, script_dir)
                 e == ZipEntry(arcname, fs[file_path].data)
             IN  /\ zf' = [zf EXCEPT !.filelist = Append(@, e)]
                 /\ fs' = ZipAppend(fs, zip_path, e)
                 /\ stdout' = Append(stdout, <<"Added", arcname>>)
          /\ reads' = reads \cup {file_path}
          /\ pending' = pending \ {file_path}
    /\ UNCHANGED <<script_file, unreadable, destFault, script_dir, skill_name,
                   zip_path, pc, exc, closed, run>>

\* lines 27-28 for a directory or a file named repackage.py
SkipEntry ==
    /\ pc = "walk"
    /\ \E file_path \in pending :
          /\ ~Eligible(fs, file_path)
          /\ pending' = pending \ {file_path}
    /\ UNCHANGED <<script_file, fs, unreadable, destFault, script_dir, skill_name,
                   zip_path, zf, pc, stdout, exc, reads, closed, run>>

\* the error of line 30 caught inside the loop, which goes on
ReadFailsSwallowed ==
    /\ pc = "walk"
    /\ \E file_path \in pending :
          /\ Eligible(fs, file_path)
          /\ file_path = unreadable
          /\ pending' = pending \ {file_path}
    /\ exc' = Append(exc, "read")
    /\ UNCHANGED <<script_file, fs, unreadable, destFault, script_dir, skill_name,
                   zip_path, zf, pc, stdout, reads, closed, run>>

\* line 30 raises on opening the source file
ReadFails ==
    /\ pc = "walk"
    /\ \E file_path \in pending :
          /\ Eligible(fs, file_path)
          /\ file_path = unreadable
          /\ pending' = pending \ {file_path}
    /\ exc' = Append(exc, "read")
    /\ pc' = "unwind"
    /\ UNCHANGED <<script_file, fs, unreadable, destFault, script_dir, skill_name,
                   zip_path, zf, stdout, reads, closed, run>>

\* line 30 raises on writing to the archive: the device is full
WriteFails ==
    /\ pc = "walk"
    /\ \E file_path \in pending :
          /\ Eligible(fs, file_path)
          /\ file_path # unreadable /\ destFault = "nospace"
          /\ reads' = reads \cup {file_path}
          /\ pending' = pending \ {file_path}
    /\ exc' = Append(exc, "write")
    /\ pc' = "unwind"
    /\ UNCHANGED <<script_file, fs, unreadable, destFault, script_dir, skill_name,
                   zip_path, zf, stdout, closed, run>>

\* zf = ZipFile(...) ... zf.close() without a with statement: an exception
\* passes the close by
CloseZipUnscoped ==
    \/ /\ pc = "walk" /\ pending = {}
       /\ zf.open
       /\ \E ok \in (IF destFault = "nospace" THEN BOOLEAN ELSE {TRUE}) :
             /\ fs' = ZipFinish(fs, zip_path, ok)
             /\ exc' = IF ok THEN exc ELSE Append(exc, "close")
             /\ pc' = IF ok THEN "print" ELSE "failed"
       /\ zf' = [zf EXCEPT !.open = FALSE]
       /\ closed' = closed + 1
       /\ UNCHANGED <<script_file, unreadable, destFault, script_dir, skill_name,
                      zip_path, pending, stdout, reads, run>>
    \/ /\ pc = "unwind"
       /\ pc' = "failed"
       /\ UNCHANGED <<script_file, fs, unreadable, destFault, script_dir,
                      skill_name, zip_path, zf, pending, stdout, exc, reads,
                      closed, run>>

\* the end of the with statement of line 26, reached by the end of the walk
\* or by an exception: ZipFile.__exit__ calls close()
CloseZip ==
    /\ \/ pc = "walk" /\ pending = {}
       \/ pc = "unwind"
    /\ zf.open
    /\ \E ok \in (IF destFault = "nospace" THEN BOOLEAN ELSE {TRUE}) :
          /\ fs' = ZipFinish(fs, zip_path, ok)
          /\ exc' = IF ok THEN exc ELSE Append(exc, "close")
          /\ pc' = IF pc = "walk" /\ ok THEN "print" ELSE "failed"
    /\ zf' = [zf EXCEPT !.open = FALSE]
    /\ closed' = closed + 1
    /\ UNCHANGED <<script_file, unreadable, destFault, script_dir, skill_name,
                   zip_path, pending, stdout, reads, run>>

\* line 33
PrintSuccess ==
    /\ pc = "print"
    /\ stdout' = Append(stdout, <<"Successfully packaged to", zip_path>>)
    /\ pc' = "done"
    /\ UNCHANGED <<script_file, fs, unreadable, destFault, script_dir, skill_name,
                   zip_path, zf, pending, exc, reads, closed, run>>

\* the user runs the script again, on the tree as the last run left it
Rerun ==
    /\ pc \in {"done", "failed"}
    /\ run < MaxRuns
    /\ run' = run + 1
    /\ script_dir' = Root /\ skill_name' = "" /\ zip_path' = Root
    /\ zf' = NoHandle
    /\ pending' = {}
    /\ pc' = "resolve"
    /\ stdout' = <<>>
    /\ exc' = <<>>
    /\ reads' = {}
    /\ closed' = 0
    /\ UNCHANGED <<script_file, fs, unreadable, destFault>>

Next ==
    \/ Resolve
    \/ RemoveOld
    \/ RemoveOldFails
    \/ OpenZip
    \/ OpenZipFails
    \/ AddFile
    \/ SkipEntry
    \/ ReadFails
    \/ WriteFails
    \/ CloseZip
    \/ PrintSuccess
    \/ Rerun

Spec == Init /\ [][Next]_vars

-----------------------------------------------------------------------------
(* what the properties speak about, stated without the script's own helpers *)

\* the directory that is packaged and the archive the usage text promises
Src == SourceOf(script_file)
Dest == DestOf(script_file)

\* the regular files under the source directory
SourceFiles ==
    {p \in DOMAIN fs : Len(p) > Len(Src) /\ SubSeq(p, 1, Len(Src)) = Src
                       /\ fs[p].kind = "file"}

\* a file's path from the source directory's name on
FromSrcName(p) == SubSeq(p, Len(Src), Len(p))

\* the files the script leaves out: all those named like it, at any depth
NamedLikeScript == {p \in SourceFiles : p[Len(p)] = "repackage.py"}

\* the entries of the archive at the destination, if there is one
Archived == IF Dest \in DOMAIN fs THEN fs[Dest].entries ELSE <<>>
ArchivedNames == {Archived[i].filename : i \in DOMAIN Archived}

\* a finalized archive, one a zip reader opens
Openable == Dest \in DOMAIN fs /\ fs[Dest].kind = "zip" /\ fs[Dest].final

\* the entry of the archive for a name, and what extracting it yields
EntryFor(n) == Archived[CHOOSE i \in DOMAIN Archived : Archived[i].filename = n]
Extracted == [n \in ArchivedNames |-> Inflate(EntryFor(n).data)]

\* the tree a set of files would extract from
AsExtracted(files) ==
    [n \in {FromSrcName(p) : p \in files} |->
        fs[CHOOSE p \in files : FromSrcName(p) = n].data]

\* the environment raises nothing in this tree
NoFaults ==
    /\ destFault = "none"
    /\ unreadable \notin SourceFiles \ NamedLikeScript

Terminated == pc \in {"done", "failed"}

-----------------------------------------------------------------------------
(* C1 *)

\* C1: after a successful run the archive's entry names are exactly the
\* regular files under the source directory except the script's own file,
\* each once.
C1_ExactlyAllButTheScript ==
    pc = "done" =>
        /\ Openable
        /\ ArchivedNames = {FromSrcName(p) : p \in SourceFiles \ {script_file}}
        /\ Len(Archived) = Cardinality(ArchivedNames)

\* C2: exactly one file, the script's own, is left out: at most one regular
\* file under the source directory is missing from the archive of a
\* successful run, and every file other than the script is written.
C2_OnlyTheScriptIsMissing ==
    pc = "done" =>
        LET missing == {p \in SourceFiles : FromSrcName(p) \notin ArchivedNames}
        IN  Cardinality(missing) <= 1 /\ missing \subseteq {script_file}

\* C4: extracting the archive of a successful run recreates, under the
\* source directory's name, the files of the tree other than the script with
\* their contents.
C4_RoundTripMinusTheScript ==
    pc = "done" => Extracted = AsExtracted(SourceFiles \ {script_file})

\* C3: with nothing failing in the environment, every run succeeds whatever
\* lies at the destination (nothing, an older archive, the archive of the run
\* before), and the archive a run leaves is its own, finalized, and holds one
\* entry per packaged file with that file's content, so that a second run
\* leaves what the first one left and nothing carried over.
C3_RerunLeavesTheSameArchive ==
    /\ NoFaults => pc \notin {"failed", "unwind"}
    /\ pc = "done" =>
          /\ Openable /\ fs[Dest].gen = run
          /\ Len(Archived) = Cardinality(SourceFiles \ NamedLikeScript)
          /\ Extracted = AsExtracted(SourceFiles \ NamedLikeScript)

\* a second run that removed the first run's archive and packaged two files
C3_Witness ==
    /\ run = 2 /\ pc = "done" /\ NoFaults
    /\ stdout # <<>> /\ stdout[1][1] = "Removed old"
    /\ Len(Archived) = 2

\* the run got as far as holding a handle on the archive
Opened == exc = <<>> \/ exc[1] \notin {"unlink", "open"}

\* C5: the handle is held only inside the with statement, and every run
\* that opened the archive has released it, once, when it ends, also when
\* an entry failed to be read or written.
C5_HandleReleasedOnEveryPath ==
    /\ zf.open => pc \in {"walk", "unwind"}
    /\ Terminated => ~zf.open
    /\ (Terminated /\ pc = "failed" /\ Opened) => closed = 1
    /\ pc \in {"print", "done"} => closed = 1

\* a run in which the write of an entry and then the end record failed
C5_Witness ==
    /\ pc = "failed" /\ exc = <<"write", "close">>
    /\ closed = 1 /\ ~zf.open

\* C6: a run in which reading a file or writing an entry raised leaves no
\* finalized archive: a finalized archive of this run at the destination
\* means that the run succeeded.
C6_NoFinalizedArchiveAfterFailure ==
    (Terminated /\ Openable /\ fs[Dest].gen = run) => pc = "done"

\* C7: with no file to package (only the script, files named like it, and
\* directories) and a writable destination, the run succeeds and leaves an
\* openable archive of its own with no entry.
C7_NothingToPackage ==
    (SourceFiles = NamedLikeScript /\ destFault = "none") =>
        /\ pc \notin {"failed", "unwind"}
        /\ pc = "done" => Openable /\ fs[Dest].gen = run /\ Archived = <<>>

\* a successful run in a tree of the script and an empty directory
C7_Witness ==
    /\ pc = "done" /\ SourceFiles = {script_file}
    /\ (Src \o <<"b">>) \in DOMAIN fs
    /\ Openable /\ Archived = <<>>

\* C8: from line 17 on the destination is <parent>/<name>.zip, which lies
\* outside the walked directory, and every entry the run writes is named by
\* a source file's path from the source directory's name on.
C8_DestinationAndEntryNames ==
    /\ pc # "resolve" =>
          /\ script_dir = Src /\ skill_name = Src[Len(Src)] /\ zip_path = Dest
          /\ ~(Len(zip_path) > Len(script_dir)
               /\ SubSeq(zip_path, 1, Len(script_dir)) = script_dir)
    /\ \A i \in DOMAIN zf.filelist :
          /\ zf.filelist[i].filename[1] = Src[Len(Src)]
          /\ \E p \in SourceFiles : zf.filelist[i].filename = FromSrcName(p)

\* a successful run two levels below the root that wrote two entries
C8_Witness ==
    /\ pc = "done" /\ Len(Src) = 2 /\ Len(zf.filelist) = 2
    /\ zip_path = <<"skills", "debug.zip">>

\* the order of the steps of a run
StepOrder ==
    {<<"resolve", "remove">>, <<"remove", "open">>, <<"remove", "failed">>,
     <<"open", "walk">>, <<"open", "failed">>, <<"walk", "unwind">>,
     <<"walk", "print">>, <<"walk", "failed">>, <<"unwind", "failed">>,
     <<"print", "done">>, <<"done", "resolve">>, <<"failed", "resolve">>}

\* C9: a run goes resolve, remove, open, walk, close: before the open no
\* source file was read and no handle held; at the open the old archive is
\* gone; from there on, also in a run that fails, whatever is at the
\* destination is this run's file; entries are written only during the walk
\* with the handle open, and none after the close.
C9_FixedOrder ==
    /\ [](/\ pc \in {"resolve", "remove", "open"} =>
                reads = {} /\ zf = NoHandle /\ pending = {}
          /\ pc = "open" => Dest \notin DOMAIN fs
          /\ (pc \in {"walk", "unwind", "print", "done"}
                \/ (pc = "failed" /\ exc[1] # "unlink")) =>
                (Dest \notin DOMAIN fs \/ fs[Dest].gen = run))
    /\ [][/\ pc' # pc => <<pc, pc'>> \in StepOrder
          /\ (run' = run /\ (zf'.filelist # zf.filelist \/ reads' # reads
                             \/ (Archived' # Archived /\ Archived' # <<>>))) =>
                pc = "walk" /\ zf.open /\ zf'.open /\ closed = 0]_vars

\* a run that removed the old archive and then failed to open the new one
C9_Witness ==
    /\ pc = "failed" /\ exc = <<"open">>
    /\ stdout # <<>> /\ stdout[1][1] = "Removed old"
    /\ Dest \notin DOMAIN fs

\* C10: no step creates, changes or deletes anything but the destination
\* path, and once an exception is raised the run reads no further file,
\* writes no further entry and only unwinds to its failed end.
C10_OnlyTheDestinationChanges ==
    [][/\ \A p \in ((DOMAIN fs) \cup (DOMAIN fs')) \ {Dest} :
             p \in DOMAIN fs /\ p \in DOMAIN fs' /\ fs'[p] = fs[p]
       /\ (exc' # <<>> /\ run' = run) => pc' \in {"unwind", "failed"}
       /\ (exc # <<>> /\ run' = run) =>
             /\ reads' = reads /\ zf'.filelist = zf.filelist
             /\ Archived' = Archived]_vars

\* a run that failed on an unreadable file with a file still to package
C10_Witness ==
    /\ pc = "failed" /\ exc = <<"read">>
    /\ \E p \in pending : p \in SourceFiles \ NamedLikeScript
    /\ Len(Archived) = 1

====
